---- MODULE Spec2Model ----
(***************************************************************************)
(* Model of pyoptical.OptiCal (src/pyoptical.py): the host-side driver of  *)
(* the CRS OptiCal photometer.  The driver is sequential; every command is *)
(* a write to the serial transport followed by a read.  The write and the  *)
(* read are separate steps of the model so that the bytes on the wire and  *)
(* the answers of the device can be observed between them.                 *)
(*                                                                         *)
(* Bytes are the integers 0..255, Python 2 strings are sequences of bytes. *)
(* Floating point values are kept symbolically (see get_measurement).      *)
(***************************************************************************)
EXTENDS Integers, Sequences, FiniteSets, TLC

VARIABLES
    eeprom,     \* the device's memory: address 0..99 -> byte (environment)
    arg,        \* the address argument of a direct _read_eeprom_single call
    pc,         \* the driver's position
    op,         \* the public operation in progress, or the last one made
    modeArg,    \* the constructor's mode argument (a string object)
    mode,       \* self.mode (a string object), NoAttr before it is assigned
    V_ref, Z_count, R_feed, R_gain, K_cal,   \* the attributes, Unset before
    idx,        \* _read_ref_defs: which of the five ranges is being read
    addr,       \* _read_eeprom: the loop variable i
    ret,        \* _read_eeprom: the list ret
    wire,       \* every byte written to the transport, in order
    reads,      \* the size asked of every read of the transport, in order
    rx,         \* the last read of the operation in progress: the size
                \* asked and the bytes returned; NoRead before its first
    result,     \* how the operation op ended, NoResult while it runs
    acked,      \* the command bytes whose response passed _check_return
    calls       \* the number of calls made on the constructed driver

vars == <<eeprom, arg, pc, op, modeArg, mode, V_ref, Z_count, R_feed, R_gain,
          K_cal, idx, addr, ret, wire, reads, rx, result, acked, calls>>

----------------------------------------------------------------------------
(* Program constants *)

ACK == 6
NACK == 21
ADC_OFFSET == 524288
CMD_CALIBRATE == 67
CMD_CURRENT == 73
CMD_VOLTAGE == 86
CMD_ADC == 76
EEPROM_BASE == 128

(* Bounds of the model *)

\* the number of calls made on one constructed driver
MaxCalls == 2

\* the longest range a direct _read_eeprom call is given, but for 80..95
MaxRangeLen == 4

Unset == -1

Byte == 0..255

----------------------------------------------------------------------------
(* String objects.  `a is 'lit'` compares object identity: it is true when *)
(* a has the characters of the literal and is the interned object the      *)
(* literal denotes.  A literal of the module is always that object; a      *)
(* string handed in by the caller is that object or an equal copy built at *)
(* run time.                                                               *)

Literal(chars) == [chars |-> chars, interned |-> TRUE]

NoAttr == [chars |-> "", interned |-> FALSE]

Is(a, chars) == a.chars = chars /\ a.interned

ModeArgs ==
    [chars : {"current", "voltage", "foo"}, interned : BOOLEAN]

----------------------------------------------------------------------------
(* Results of an operation *)

Desc(text, address) == [text |-> text, addr |-> address]

NoRead == [n |-> 0, data |-> <<>>]

NoResult == [kind |-> "none"]

Returned(v) == [kind |-> "ok", val |-> v]

Raise(exc, desc) == [kind |-> "error", exc |-> exc, desc |-> desc]

Failed(r) == r.kind = "error"

----------------------------------------------------------------------------
(* to_int: reverse the list in place, join it, hex-encode the string and   *)
(* parse the digits in base 16.                                            *)

Reverse(s) == [i \in 1..Len(s) |-> s[Len(s) + 1 - i]]

RECURSIVE HexEncode(_)
HexEncode(s) ==
    IF s = <<>> THEN <<>>
    ELSE <<Head(s) \div 16, Head(s) % 16>> \o HexEncode(Tail(s))

RECURSIVE IntBase16(_, _)
IntBase16(digits, acc) ==
    IF digits = <<>> THEN acc
    ELSE IntBase16(Tail(digits), acc * 16 + Head(digits))

to_int_as_given(list_of_bytes) == IntBase16(HexEncode(list_of_bytes), 0)

to_int(list_of_bytes) == IntBase16(HexEncode(Reverse(list_of_bytes)), 0)

----------------------------------------------------------------------------
(* _check_return: the exception it raises, or NoResult *)

check_return_last_byte(r, description) ==
    IF r = <<>> THEN Raise("TimeoutException", description)
    ELSE IF r[Len(r)] = NACK
         THEN Raise("NACKException", description)
         ELSE NoResult

check_return(r, description) ==
    IF r = <<>> THEN Raise("TimeoutException", description)
    ELSE IF \E i \in 1..Len(r) : r[i] = NACK
         THEN Raise("NACKException", description)
         ELSE NoResult

----------------------------------------------------------------------------
(* The device.  Its memory is static; the constants are stored least       *)
(* significant byte first at the addresses _read_ref_defs reads.           *)

RefDefs_gain_before_feed ==
    << [name |-> "V_ref",   start |-> 16, stop |-> 19],
       [name |-> "Z_count", start |-> 32, stop |-> 35],
       [name |-> "R_gain",  start |-> 64, stop |-> 67],
       [name |-> "R_feed",  start |-> 48, stop |-> 51],
       [name |-> "K_cal",   start |-> 96, stop |-> 99] >>

RefDefs ==
    << [name |-> "V_ref",   start |-> 16, stop |-> 19],
       [name |-> "Z_count", start |-> 32, stop |-> 35],
       [name |-> "R_feed",  start |-> 48, stop |-> 51],
       [name |-> "R_gain",  start |-> 64, stop |-> 67],
       [name |-> "K_cal",   start |-> 96, stop |-> 99] >>

ByteOf(n, k) == (n \div (256 ^ k)) % 256

Image(v, z, f, g, k) ==
    [a \in 0..99 |->
        IF a \in 16..19 THEN ByteOf(v, a - 16)
        ELSE IF a \in 32..35 THEN ByteOf(z, a - 32)
        ELSE IF a \in 48..51 THEN ByteOf(f, a - 48)
        ELSE IF a \in 64..67 THEN ByteOf(g, a - 64)
        ELSE IF a \in 96..99 THEN ByteOf(k, a - 96)
        ELSE 0]

VRefVals == {3, 70000}
ZCountVals == {0, 300}
RFeedVals == {0, 20000}
RGainVals == {1}
KCalVals == {0, 1000, 5376}

Images ==
    { Image(v, z, f, g, k) :
        v \in VRefVals, z \in ZCountVals, f \in RFeedVals,
        g \in RGainVals, k \in KCalVals }

(* What a read of 1 byte can return after a control command *)
ControlResponses == { <<>>, <<ACK>>, <<NACK>>, <<0>> }

(* What a read of 2 bytes can return after the eeprom command for a *)
EepromResponses(a) ==
    { <<>>, <<eeprom[a]>>, <<eeprom[a], ACK>>, <<eeprom[a], NACK>>,
      <<NACK, ACK>> }

----------------------------------------------------------------------------
(* before construction: a device with one of `images` as its memory, and   *)
(* the address `args` that a direct eeprom read will be given              *)
InitWith(images, args) ==
    /\ eeprom \in images
    /\ arg \in args
    /\ pc = "new"
    /\ op = "none"
    /\ modeArg = NoAttr
    /\ mode = NoAttr
    /\ V_ref = Unset /\ Z_count = Unset /\ R_feed = Unset
    /\ R_gain = Unset /\ K_cal = Unset
    /\ idx = 0 /\ addr = 0 /\ ret = <<>>
    /\ wire = <<>> /\ reads = <<>> /\ rx = NoRead
    /\ result = NoResult
    /\ acked = {}
    /\ calls = 0

Init == InitWith(Images, {0})

refs == <<V_ref, Z_count, R_feed, R_gain, K_cal>>
loop == <<idx, addr, ret>>

(* self.phot.write(command) *)
write(command) == wire' = Append(wire, command)

read_one_byte(size, r) == /\ reads' = Append(reads, 1)
                          /\ rx' = [n |-> 1, data |-> r]

(* ret = self.phot.read(size) *)
read(size, r) == /\ reads' = Append(reads, size)
                 /\ rx' = [n |-> size, data |-> r]

InitFails_retry(err) ==
    /\ result' = err
    /\ pc' = "calibrate"

InitFails_usable(err) ==
    /\ result' = err
    /\ pc' = "ready"

(* an exception leaves __init__: no instance is returned *)
InitFails(err) ==
    /\ result' = err
    /\ pc' = "failed"

(* OptiCal(com_port, mode): the transport is opened *)
Construct ==
    /\ pc = "new"
    /\ \E m \in ModeArgs : modeArg' = m
    /\ op' = "__init__"
    /\ pc' = "calibrate"
    /\ UNCHANGED <<eeprom, arg, mode, refs, loop, wire, reads, rx, result,
                   acked, calls>>

(* _calibrate: _send_command('C', "calibrate"), the write *)
SendCalibrate ==
    /\ pc = "calibrate"
    /\ write(CMD_CALIBRATE)
    /\ pc' = "await_calibrate"
    /\ UNCHANGED <<eeprom, arg, op, modeArg, mode, refs, loop, reads, rx,
                   result, acked, calls>>

(* _send_command: the read and _check_return; then _read_ref_defs starts *)
RecvCalibrate ==
    /\ pc = "await_calibrate"
    /\ \E r \in ControlResponses :
        LET err == check_return(r, Desc("calibrate", -1)) IN
        /\ read(1, r)
        /\ IF Failed(err)
           THEN /\ InitFails(err)
                /\ UNCHANGED <<loop, acked>>
           ELSE /\ acked' = acked \cup {CMD_CALIBRATE}
                /\ idx' = 1
                /\ addr' = RefDefs[1].start
                /\ ret' = <<>>
                /\ pc' = "eeprom"
                /\ UNCHANGED result
    /\ UNCHANGED <<eeprom, arg, op, modeArg, mode, refs, wire, calls>>

(* _read_eeprom_single(i) inside _read_eeprom: the write *)
SendEeprom ==
    /\ pc = "eeprom"
    /\ write(EEPROM_BASE + addr)
    /\ pc' = "await_eeprom"
    /\ UNCHANGED <<eeprom, arg, op, modeArg, mode, refs, loop, reads, rx,
                   result, acked, calls>>

(* _read_eeprom_single(address) given the 2-byte read's answer r:          *)
(* the exception raised, or the byte ret[0] returned                       *)
read_eeprom_single_last(address, r) ==
    LET err == check_return(r, Desc("reading eeprom at address %d", address))
    IN  IF Failed(err) THEN err ELSE Returned(r[Len(r)])

read_eeprom_single(address, r) ==
    LET err == check_return(r, Desc("reading eeprom at address %d", address))
    IN  IF Failed(err) THEN err ELSE Returned(r[1])

(* _read_ref_defs: the attribute of range i is assigned to_int(bytes) *)
AssignRef(i, bytes) ==
    /\ V_ref'   = IF i = 1 THEN to_int(bytes) ELSE V_ref
    /\ Z_count' = IF i = 2 THEN to_int(bytes) ELSE Z_count
    /\ R_feed'  = IF i = 3 THEN to_int(bytes) ELSE R_feed
    /\ R_gain'  = IF i = 4 THEN to_int(bytes) ELSE R_gain
    /\ K_cal'   = IF i = 5 THEN to_int(bytes) ELSE K_cal

(* after range i is assigned: the next range, or the mode dispatch *)
NextRef(i) ==
    IF i < Len(RefDefs)
    THEN /\ idx' = i + 1
         /\ addr' = RefDefs[i + 1].start
         /\ ret' = <<>>
         /\ pc' = "eeprom"
    ELSE /\ UNCHANGED loop
         /\ pc' = "select_mode"

(* _read_eeprom_single: the read and the check; _read_eeprom appends the   *)
(* byte and goes on, and at the end of the range _read_ref_defs converts   *)
RecvEeprom ==
    /\ pc = "await_eeprom"
    /\ \E r \in EepromResponses(addr) :
        LET got == read_eeprom_single(addr, r) IN
        /\ read(2, r)
        /\ IF Failed(got)
           THEN /\ InitFails(got)
                /\ UNCHANGED <<refs, loop, acked>>
           ELSE /\ acked' = acked \cup {EEPROM_BASE + addr}
                /\ UNCHANGED result
                /\ IF addr < RefDefs[idx].stop
                   THEN /\ ret' = Append(ret, got.val)
                        /\ addr' = addr + 1
                        /\ pc' = "eeprom"
                        /\ UNCHANGED <<refs, idx>>
                   ELSE /\ AssignRef(idx, Append(ret, got.val))
                        /\ NextRef(idx)
    /\ UNCHANGED <<eeprom, arg, op, modeArg, mode, wire, calls>>

(* __init__ lines 65-71: the dispatch on the mode argument; the chosen     *)
(* _set_*_mode assigns self.mode and writes its command                    *)
SelectMode ==
    /\ pc = "select_mode"
    /\ IF Is(modeArg, "current")
       THEN /\ mode' = Literal("current")
            /\ write(CMD_CURRENT)
            /\ pc' = "await_mode"
            /\ UNCHANGED result
       ELSE IF Is(modeArg, "voltage")
       THEN /\ mode' = Literal("voltage")
            /\ write(CMD_VOLTAGE)
            /\ pc' = "await_mode"
            /\ UNCHANGED result
       ELSE /\ InitFails(Raise("OptiCalException",
                               Desc("Mode is not supported by OptiCal", -1)))
            /\ UNCHANGED <<mode, wire>>
    /\ UNCHANGED <<eeprom, arg, op, modeArg, refs, loop, reads, rx, acked,
                   calls>>

ModeDesc ==
    IF Is(mode, "current") THEN Desc("set current mode", -1)
    ELSE Desc("set voltage mode", -1)

(* _set_*_mode: the read and the check of _send_command; __init__ returns *)
RecvMode ==
    /\ pc = "await_mode"
    /\ \E r \in ControlResponses :
        LET err == check_return(r, ModeDesc) IN
        /\ read(1, r)
        /\ IF Failed(err)
           THEN /\ InitFails(err)
                /\ UNCHANGED acked
           ELSE /\ acked' = acked \cup {wire[Len(wire)]}
                /\ result' = Returned([instance |-> TRUE])
                /\ pc' = "ready"
    /\ UNCHANGED <<eeprom, arg, op, modeArg, mode, refs, loop, wire, calls>>

OptiCal_init ==
    \/ Construct
    \/ SendCalibrate
    \/ RecvCalibrate
    \/ SendEeprom
    \/ RecvEeprom
    \/ SelectMode
    \/ RecvMode

----------------------------------------------------------------------------
(* Measurements on the constructed driver *)

AdcBytes == {0, 8, ACK, NACK, 255}

RECURSIVE SeqsUpTo(_, _)
SeqsUpTo(S, n) ==
    IF n = 0 THEN { <<>> }
    ELSE LET shorter == SeqsUpTo(S, n - 1) IN
         shorter \cup { Append(q, b) : q \in { x \in shorter : Len(x) = n - 1 },
                                       b \in S }

(* What a read of 4 bytes can return after the ADC command *)
AdcResponses == SeqsUpTo(AdcBytes, 4)

(* _read_adc given the 4-byte read's answer r: the exception raised, or    *)
(* the corrected ADC value.  ret[:-1] drops the last byte; ret[0], ret[1]  *)
(* and ret[2] of what is left raise IndexError when it is shorter than 3.  *)
read_adc_keep_status(r) ==
    LET err == check_return(r, Desc("reading adc value", -1))
    IN  IF Failed(err) THEN err
        ELSE IF Len(r) < 4
        THEN Raise("IndexError", Desc("string index out of range", -1))
        ELSE Returned(to_int(<<r[2], r[3], r[4]>>) - Z_count - ADC_OFFSET)

read_adc(r) ==
    LET err == check_return(r, Desc("reading adc value", -1))
        cut == SubSeq(r, 1, Len(r) - 1)
    IN  IF Failed(err) THEN err
        ELSE IF Len(cut) < 3
        THEN Raise("IndexError", Desc("string index out of range", -1))
        ELSE Returned(to_int(<<cut[1], cut[2], cut[3]>>) - Z_count - ADC_OFFSET)

(* _get_measurement given the answer r to the ADC command.  The float      *)
(* value ((ADC_adjust/524288.0) * V_ref * 1.e-6) / (R_feed * K_cal *       *)
(* 1.e-15) is kept as its integer operands.  denominator is assigned only  *)
(* when self.mode is 'current'; the division raises when it is unbound or  *)
(* zero.                                                                   *)
get_measurement(r) ==
    LET adc == read_adc(r) IN
    IF Failed(adc) THEN adc
    ELSE IF ~Is(mode, "current")
    THEN Raise("UnboundLocalError",
               Desc("local variable 'denominator' referenced before assignment", -1))
    ELSE IF R_feed = 0 \/ K_cal = 0
    THEN Raise("ZeroDivisionError", Desc("float division by zero", -1))
    ELSE Returned([numerator |-> [ADC_adjust |-> adc.val, V_ref |-> V_ref],
                   denominator |-> [R_feed |-> R_feed, K_cal |-> K_cal]])

(* a call on the constructed driver starts *)
Call(name) ==
    /\ pc = "ready"
    /\ calls < MaxCalls
    /\ calls' = calls + 1
    /\ op' = name
    /\ rx' = NoRead

Accessor_unchecked(name, wanted, message) ==
    /\ Call(name)
    /\ write(CMD_ADC)
    /\ result' = NoResult
    /\ pc' = "await_adc"
    /\ UNCHANGED <<eeprom, arg, modeArg, mode, refs, loop, reads, acked>>

(* the accessor for `wanted` mode: the mode check, then _read_adc's write *)
Accessor(name, wanted, message) ==
    /\ Call(name)
    /\ IF ~Is(mode, wanted)
       THEN /\ result' = Raise("OptiCalException", Desc(message, -1))
            /\ UNCHANGED <<pc, wire>>
       ELSE /\ write(CMD_ADC)
            /\ result' = NoResult
            /\ pc' = "await_adc"
    /\ UNCHANGED <<eeprom, arg, modeArg, mode, refs, loop, reads, acked>>

get_luminance ==
    Accessor("get_luminance", "current",
             "get_luminance() is only available in 'current' mode")

get_voltage ==
    Accessor("get_voltage", "voltage",
             "get_voltage() is only available in 'voltage' mode")

RecvAdcFrom_rezeroes(responses) ==
    /\ pc = "await_adc"
    /\ \E r \in responses :
        /\ read(4, r)
        /\ result' = get_measurement(r)
        /\ Z_count' = IF Failed(read_adc(r)) THEN Z_count
                      ELSE Z_count + read_adc(r).val
        /\ acked' = IF Failed(check_return(r, Desc("reading adc value", -1)))
                    THEN acked ELSE acked \cup {CMD_ADC}
    /\ pc' = "ready"
    /\ UNCHANGED <<eeprom, arg, op, modeArg, mode, V_ref, R_feed, R_gain,
                   K_cal, loop, wire, calls>>

(* _read_adc's read and the rest of _get_measurement *)
RecvAdcFrom(responses) ==
    /\ pc = "await_adc"
    /\ \E r \in responses :
        /\ read(4, r)
        /\ result' = get_measurement(r)
        /\ acked' = IF Failed(check_return(r, Desc("reading adc value", -1)))
                    THEN acked ELSE acked \cup {CMD_ADC}
    /\ pc' = "ready"
    /\ UNCHANGED <<eeprom, arg, op, modeArg, mode, refs, loop, wire, calls>>

RecvAdc == RecvAdcFrom(AdcResponses)

Next ==
    \/ OptiCal_init
    \/ get_luminance
    \/ get_voltage
    \/ RecvAdc

Spec == Init /\ [][Next]_vars

----------------------------------------------------------------------------
(* _read_eeprom_single(arg) called directly on the constructed driver,     *)
(* for every address and with a transport that answers any byte.           *)

BaseImage == Image(70000, 300, 20000, 1, 1000)

AnyEepromResponses ==
    { <<>> } \cup { <<b>> : b \in Byte }
             \cup { <<b, s>> : b \in Byte, s \in {ACK, NACK, 0} }

CallReadEepromSingle ==
    /\ Call("_read_eeprom_single")
    /\ write(EEPROM_BASE + arg)
    /\ result' = NoResult
    /\ pc' = "await_single"
    /\ UNCHANGED <<eeprom, arg, modeArg, mode, refs, loop, reads, acked>>

RecvReadEepromSingle_last ==
    /\ pc = "await_single"
    /\ \E r \in AnyEepromResponses :
        /\ read(2, r)
        /\ result' = read_eeprom_single_last(arg, r)
        /\ acked' = IF Failed(read_eeprom_single_last(arg, r))
                    THEN acked ELSE acked \cup {EEPROM_BASE + arg}
    /\ pc' = "ready"
    /\ UNCHANGED <<eeprom, arg, op, modeArg, mode, refs, loop, wire, calls>>

RecvReadEepromSingle ==
    /\ pc = "await_single"
    /\ \E r \in AnyEepromResponses :
        /\ read(2, r)
        /\ result' = read_eeprom_single(arg, r)
        /\ acked' = IF Failed(read_eeprom_single(arg, r))
                    THEN acked ELSE acked \cup {EEPROM_BASE + arg}
    /\ pc' = "ready"
    /\ UNCHANGED <<eeprom, arg, op, modeArg, mode, refs, loop, wire, calls>>

InitEeprom == InitWith({BaseImage}, 0..99)

NextEeprom ==
    \/ OptiCal_init
    \/ CallReadEepromSingle
    \/ RecvReadEepromSingle

SpecEeprom == InitEeprom /\ [][NextEeprom]_vars

----------------------------------------------------------------------------
(* _read_adc() called directly on the constructed driver, with a transport *)
(* that answers any low byte.                                              *)

AdcImages == { Image(70000, z, 20000, 1, 1000) : z \in {0, 300, 524288} }

AnyAdcResponses ==
    { <<b0, b1, b2, s>> :
        b0 \in Byte, b1 \in {0, 1, 8, 255}, b2 \in {0, 1, 8, 255},
        s \in {ACK, NACK, 0} }

CallReadAdc ==
    /\ Call("_read_adc")
    /\ write(CMD_ADC)
    /\ result' = NoResult
    /\ pc' = "await_read_adc"
    /\ UNCHANGED <<eeprom, arg, modeArg, mode, refs, loop, reads, acked>>

RecvReadAdc ==
    /\ pc = "await_read_adc"
    /\ \E r \in AnyAdcResponses :
        /\ read(4, r)
        /\ result' = read_adc(r)
        /\ acked' = IF Failed(read_adc(r)) THEN acked ELSE acked \cup {CMD_ADC}
    /\ pc' = "ready"
    /\ UNCHANGED <<eeprom, arg, op, modeArg, mode, refs, loop, wire, calls>>

InitAdc == InitWith(AdcImages, {0})

NextAdc ==
    \/ OptiCal_init
    \/ CallReadAdc
    \/ RecvReadAdc

SpecAdc == InitAdc /\ [][NextAdc]_vars
----------------------------------------------------------------------------
(* _read_eeprom(arg.start, arg.stop) called directly on the constructed    *)
(* driver, as _read_product_type and the other readers call it.  The       *)
(* device's memory holds its own address at every address that is not part *)
(* of a constant, so that the order of the bytes returned can be seen.     *)

RangeImage ==
    [a \in 0..99 |->
        IF \E i \in 1..Len(RefDefs) : a \in RefDefs[i].start..RefDefs[i].stop
        THEN BaseImage[a] ELSE a]

RangeArgs ==
    { x \in [start : 0..99, stop : 0..99] :
        x.start <= x.stop /\ x.stop < x.start + MaxRangeLen }
    \cup { [start |-> 80, stop |-> 95] }

(* _read_eeprom: ret = [] and the loop starts *)
CallReadEeprom ==
    /\ Call("_read_eeprom")
    /\ ret' = <<>>
    /\ addr' = arg.start
    /\ result' = NoResult
    /\ pc' = "range"
    /\ UNCHANGED <<eeprom, arg, modeArg, mode, refs, idx, wire, reads, acked>>

(* _read_eeprom_single(i) inside the loop: the write *)
SendRange ==
    /\ pc = "range"
    /\ write(EEPROM_BASE + addr)
    /\ pc' = "await_range"
    /\ UNCHANGED <<eeprom, arg, op, modeArg, mode, refs, loop, reads, rx,
                   result, acked, calls>>

RecvRange_prepends ==
    /\ pc = "await_range"
    /\ \E r \in EepromResponses(addr) :
        LET got == read_eeprom_single(addr, r) IN
        /\ read(2, r)
        /\ IF Failed(got)
           THEN /\ result' = got
                /\ pc' = "ready"
                /\ UNCHANGED <<addr, ret, acked>>
           ELSE /\ acked' = acked \cup {EEPROM_BASE + addr}
                /\ ret' = <<got.val>> \o ret
                /\ IF addr < arg.stop
                   THEN /\ addr' = addr + 1
                        /\ pc' = "range"
                        /\ UNCHANGED result
                   ELSE /\ result' = Returned(<<got.val>> \o ret)
                        /\ pc' = "ready"
                        /\ UNCHANGED addr
    /\ UNCHANGED <<eeprom, arg, op, modeArg, mode, refs, idx, wire, calls>>

(* _read_eeprom_single: the read and the check; the loop appends the byte  *)
(* and goes on, or returns ret after the last address                      *)
RecvRange ==
    /\ pc = "await_range"
    /\ \E r \in EepromResponses(addr) :
        LET got == read_eeprom_single(addr, r) IN
        /\ read(2, r)
        /\ IF Failed(got)
           THEN /\ result' = got
                /\ pc' = "ready"
                /\ UNCHANGED <<addr, ret, acked>>
           ELSE /\ acked' = acked \cup {EEPROM_BASE + addr}
                /\ ret' = Append(ret, got.val)
                /\ IF addr < arg.stop
                   THEN /\ addr' = addr + 1
                        /\ pc' = "range"
                        /\ UNCHANGED result
                   ELSE /\ result' = Returned(Append(ret, got.val))
                        /\ pc' = "ready"
                        /\ UNCHANGED addr
    /\ UNCHANGED <<eeprom, arg, op, modeArg, mode, refs, idx, wire, calls>>

InitRange == InitWith({RangeImage}, RangeArgs)

NextRange ==
    \/ OptiCal_init
    \/ CallReadEeprom
    \/ SendRange
    \/ RecvRange

SpecRange == InitRange /\ [][NextRange]_vars

----------------------------------------------------------------------------
(* to_int(ret) called on a list the caller keeps: rx.data are the bytes as *)
(* received, ret is the caller's list of them.  list_of_bytes.reverse()    *)
(* reverses the caller's list in place; the value returned is to_int's.    *)
(* Lists of 4 bytes keep every byte below 128 so that the value fits the   *)
(* checker's integers.                                                     *)

ToIntInputs ==
    { <<b>> : b \in Byte }
    \cup { q \in SeqsUpTo({0, 1, NACK, 128, 255}, 3) : Len(q) \in {2, 3} }
    \cup { q \in SeqsUpTo({0, 1, ACK, 127}, 4) : Len(q) = 4 }

InitToInt ==
    /\ eeprom = BaseImage
    /\ arg = 0
    /\ pc = "caller"
    /\ op = "none"
    /\ modeArg = NoAttr
    /\ mode = NoAttr
    /\ V_ref = Unset /\ Z_count = Unset /\ R_feed = Unset
    /\ R_gain = Unset /\ K_cal = Unset
    /\ idx = 0 /\ addr = 0
    /\ \E bytes \in ToIntInputs :
        /\ rx = [n |-> Len(bytes), data |-> bytes]
        /\ ret = bytes
    /\ wire = <<>> /\ reads = <<>>
    /\ result = NoResult
    /\ acked = {}
    /\ calls = 0

(* the list after list_of_bytes.reverse() *)
reverse_in_place(list_of_bytes) == Reverse(list_of_bytes)

CallToInt ==
    /\ pc = "caller"
    /\ calls < MaxCalls
    /\ calls' = calls + 1
    /\ op' = "to_int"
    /\ result' = Returned(to_int(ret))
    /\ ret' = reverse_in_place(ret)
    /\ UNCHANGED <<eeprom, arg, pc, modeArg, mode, refs, idx, addr, wire,
                   reads, rx, acked>>

NextToInt == CallToInt

SpecToInt == InitToInt /\ [][NextToInt]_vars

----------------------------------------------------------------------------
(* The claims *)

HasNack(bytes) == \E i \in 1..Len(bytes) : bytes[i] = NACK

(* the command the last read answered *)
AnsweredCmd == wire[Len(reads)]

(* the description the protocol gives the operation a command belongs to *)
DescOfCmd(cmd) ==
    IF cmd = 67 THEN Desc("calibrate", -1)
    ELSE IF cmd = 73 THEN Desc("set current mode", -1)
    ELSE IF cmd = 86 THEN Desc("set voltage mode", -1)
    ELSE IF cmd = 76 THEN Desc("reading adc value", -1)
    ELSE Desc("reading eeprom at address %d", cmd - 128)

(* the bytes a construction writes, up to the mode-select command *)
RefReadCmds ==
    << 144, 145, 146, 147,  160, 161, 162, 163,  176, 177, 178, 179,
       192, 193, 194, 195,  224, 225, 226, 227 >>

InitWire(select) == <<67>> \o RefReadCmds \o <<select>>

IsPrefix(p, q) == Len(p) <= Len(q) /\ SubSeq(q, 1, Len(p)) = p

AllRefsLoaded ==
    /\ V_ref # Unset /\ Z_count # Unset /\ R_feed # Unset
    /\ R_gain # Unset /\ K_cal # Unset

(* C1: constructing with a mode string that is neither "current" nor       *)
(* "voltage" fails before any byte is written to the transport: in that    *)
(* run no command is ever sent.                                            *)
C1_BadModeWritesNothing ==
    (op = "__init__" /\ modeArg.chars \notin {"current", "voltage"})
        => wire = <<>>

(* C2: a non-empty response to an eeprom read (2 bytes expected) or an ADC *)
(* read (4 bytes expected) that is shorter than expected and holds no NACK *)
(* makes the operation fail with TimeoutException.                         *)
C2_ShortReadIsTimeout ==
    (/\ rx.n \in {2, 4}
     /\ rx.data # <<>>
     /\ Len(rx.data) < rx.n
     /\ ~HasNack(rx.data))
        => result = Raise("TimeoutException", DescOfCmd(AnsweredCmd))

(* C3 as stated: for every address 0..99 and every data byte 0..255,       *)
(* _read_eeprom_single(addr) answered [byte, ACK] returns the byte.        *)
C3_EveryByteReturned ==
    (/\ op = "_read_eeprom_single"
     /\ rx.n = 2
     /\ Len(rx.data) = 2
     /\ rx.data[2] = ACK)
        => result = Returned(rx.data[1])

(* C3 as amended: for every address 0..99, _read_eeprom_single(addr)       *)
(* writes exactly the one command byte 128+addr and reads 2 bytes; when    *)
(* the answer is [byte, ACK] it returns the byte for every data byte but   *)
(* 21 (NACK), for which it raises NACKException.                           *)
C3_EepromByteRead ==
    op = "_read_eeprom_single" =>
        /\ Len(wire) = Len(InitWire(0)) + calls
        /\ wire[Len(wire)] = 128 + arg
        /\ rx.n # 0 =>
            /\ Len(reads) = Len(wire)
            /\ reads[Len(reads)] = 2
            /\ rx.n = 2
        /\ (rx.n # 0 /\ Len(rx.data) = 2 /\ rx.data[2] = ACK) =>
            IF rx.data[1] = 21
            THEN result = Raise("NACKException",
                                Desc("reading eeprom at address %d", arg))
            ELSE result = Returned(rx.data[1])

C3_Witness ==
    /\ op = "_read_eeprom_single"
    /\ arg = 99
    /\ rx = [n |-> 2, data |-> <<255, ACK>>]
    /\ result = Returned(255)

(* C4: after every command the answer is validated before it is            *)
(* interpreted: an empty answer fails with TimeoutException, an answer     *)
(* holding 21 at any position fails with NACKException, each with the      *)
(* description of the operation that failed, and every other answer is     *)
(* accepted.                                                               *)
C4_ValidatorApplied ==
    rx.n # 0 =>
        /\ rx.data = <<>> =>
            result = Raise("TimeoutException", DescOfCmd(AnsweredCmd))
        /\ HasNack(rx.data) =>
            result = Raise("NACKException", DescOfCmd(AnsweredCmd))
        /\ (rx.data # <<>> /\ ~HasNack(rx.data)) =>
            /\ ~(Failed(result)
                 /\ result.exc \in {"TimeoutException", "NACKException"})
            /\ (pc \in {"eeprom", "await_eeprom"} /\ ret # <<>>)
                  => ret[Len(ret)] = rx.data[1]

C4_Witness ==
    /\ rx = [n |-> 4, data |-> <<0, NACK, 0, ACK>>]
    /\ result = Raise("NACKException", Desc("reading adc value", -1))

(* C5: on a driver in voltage mode, get_voltage() answered 4 bytes with no *)
(* NACK returns the numerator (ADC_adjust / 524288.0) * V_ref * 1e-6.      *)
C5_VoltageReturnsNumerator ==
    (/\ op = "get_voltage"
     /\ Is(mode, "voltage")
     /\ rx.n = 4
     /\ Len(rx.data) = 4
     /\ ~HasNack(rx.data))
        => /\ result.kind = "ok"
           /\ result.val.numerator =
                [ADC_adjust |-> rx.data[1] + rx.data[2] * 256
                                + rx.data[3] * 65536 - Z_count - 524288,
                 V_ref |-> V_ref]

(* C6: what a construction writes is a prefix of 'C', the twenty eeprom    *)
(* read commands in the order V_ref, Z_count, R_feed, R_gain, K_cal, and   *)
(* one mode-select command; a successful construction has written all of   *)
(* it, ending with 'I' for "current" and 'V' for "voltage"; a mode-select  *)
(* command is on the wire only when all five constants are loaded.         *)
C6_InitWireOrder ==
    /\ op = "__init__" =>
        \/ IsPrefix(wire, InitWire(73))
        \/ IsPrefix(wire, InitWire(86))
    /\ (op = "__init__" /\ result.kind = "ok") =>
        wire = InitWire(IF modeArg.chars = "current" THEN 73 ELSE 86)
    /\ (\E i \in 1..Len(wire) : wire[i] \in {73, 86}) => AllRefsLoaded

C6_Witness ==
    /\ op = "__init__"
    /\ result.kind = "ok"
    /\ modeArg.chars = "voltage"
    /\ wire = InitWire(86)

(* C7: no retries.  The step that reads an empty answer or one holding     *)
(* NACK ends the operation with an error and writes nothing; nothing is    *)
(* written after a failed construction; and a byte is written after an     *)
(* operation failed only by a new call.                                    *)
C7_NoRetries ==
    [][ /\ (reads' # reads /\ (rx'.data = <<>> \/ HasNack(rx'.data))) =>
            /\ Failed(result')
            /\ result'.exc \in {"TimeoutException", "NACKException"}
            /\ wire' = wire
            /\ pc' \in {"failed", "ready"}
        /\ pc = "failed" => wire' = wire
        /\ (Failed(result) /\ wire' # wire) => calls' = calls + 1 ]_vars

C7_Witness ==
    /\ pc = "failed"
    /\ Len(wire) = 7
    /\ rx = [n |-> 2, data |-> <<>>]
    /\ result = Raise("TimeoutException",
                      Desc("reading eeprom at address %d", 33))

(* C8: whenever a measurement call has succeeded, the calibrate command,   *)
(* the twenty eeprom reads and the mode-select command each got an answer  *)
(* that passed validation and the five constants are loaded; after a       *)
(* failed construction no measurement step can be taken.                   *)
C8_MeasurementNeedsInit ==
    /\ (op \in {"get_luminance", "get_voltage"} /\ result.kind = "ok") =>
        /\ 67 \in acked
        /\ \A i \in 1..Len(RefReadCmds) : RefReadCmds[i] \in acked
        /\ AllRefsLoaded
        /\ (73 \in acked \/ 86 \in acked)
    /\ pc = "failed" =>
        ~ENABLED (get_luminance \/ get_voltage \/ RecvAdc)

C8_Witness ==
    /\ op = "get_luminance"
    /\ result.kind = "ok"
    /\ calls = 2

(* C9: calling the accessor that does not match the driver's mode raises   *)
(* the mode-mismatch error and neither writes nor reads the transport nor  *)
(* changes the mode or the constants.                                      *)
C9_MismatchTouchesNothing ==
    [][ (/\ pc = "ready"
         /\ calls' = calls + 1
         /\ \/ (op' = "get_voltage" /\ mode.chars = "current")
            \/ (op' = "get_luminance" /\ mode.chars = "voltage"))
        => /\ Failed(result')
           /\ result'.exc = "OptiCalException"
           /\ UNCHANGED <<wire, reads, mode, refs, pc>> ]_vars

C9_Witness ==
    /\ op = "get_voltage"
    /\ mode.chars = "current"
    /\ Failed(result)
    /\ result.exc = "OptiCalException"
    /\ Len(wire) = Len(InitWire(73))

(* C10: _read_adc() writes the one byte 'L', reads 4 bytes, and for every  *)
(* answer [b0, b1, b2, status] without a NACK byte returns                 *)
(* (b0 + b1*2^8 + b2*2^16) - Z_count - 524288, whatever the status byte.   *)
C10_AdcValue ==
    op = "_read_adc" =>
        /\ Len(wire) = Len(InitWire(0)) + calls
        /\ wire[Len(wire)] = 76
        /\ rx.n # 0 =>
            /\ Len(reads) = Len(wire)
            /\ reads[Len(reads)] = 4
        /\ (rx.n # 0 /\ Len(rx.data) = 4 /\ ~HasNack(rx.data)) =>
            result = Returned(rx.data[1] + rx.data[2] * 256
                              + rx.data[3] * 65536 - Z_count - 524288)

C10_Witness ==
    /\ op = "_read_adc"
    /\ Z_count = 300
    /\ rx = [n |-> 4, data |-> <<255, 1, 8, 0>>]
    /\ result = Returned(255 + 256 + 524288 - 300 - 524288)

(* the integer of a byte sequence, least significant byte first *)
RECURSIVE LsbFirst(_)
LsbFirst(bytes) ==
    IF bytes = <<>> THEN 0 ELSE Head(bytes) + 256 * LsbFirst(Tail(bytes))

(* C11: for every byte sequence of length 1..4 as passed, to_int returns   *)
(* the sum of byte[i] * 2^(8*i); <<1, 0, 0, 0>> gives 1, <<0, 1>> gives    *)
(* 256.                                                                    *)
C11_LsbFirst ==
    [][ (op' = "to_int" /\ calls' = calls + 1) =>
            /\ result' = Returned(LsbFirst(ret))
            /\ ret = <<1, 0, 0, 0>> => result' = Returned(1)
            /\ ret = <<0, 1>> => result' = Returned(256) ]_vars

C11_Witness ==
    /\ op = "to_int"
    /\ calls = 1
    /\ rx.data = <<0, 1>>
    /\ result = Returned(256)

(* C17: after to_int returns, the caller's sequence has the same elements  *)
(* in the same order, so every decoding of it yields the same integer.     *)
C17_ArgumentUnchanged ==
    op = "to_int" =>
        /\ ret = rx.data
        /\ result = Returned(LsbFirst(rx.data))

(* the last n bytes of the wire are the commands for start, start+1, ...   *)
LastCmdsAscend(start, n) ==
    /\ n <= Len(wire)
    /\ \A i \in 1..n : wire[Len(wire) - n + i] = 128 + start + i - 1

(* a range read that returned: one command per address, the bytes of the   *)
(* addresses in address order                                              *)
RangeReturned ==
    (op = "_read_eeprom" /\ result.kind = "ok") =>
        /\ Len(result.val) = arg.stop - arg.start + 1
        /\ \A i \in 1..Len(result.val) :
                result.val[i] = eeprom[arg.start + i - 1]
        /\ LastCmdsAscend(arg.start, arg.stop - arg.start + 1)
        /\ Len(reads) = Len(wire)

(* a range read that failed: the error of the read at the last address     *)
(* written, k                                                              *)
RangeFailed ==
    (op = "_read_eeprom" /\ Failed(result)) =>
        LET k == wire[Len(wire)] - 128 IN
        /\ k \in arg.start..arg.stop
        /\ LastCmdsAscend(arg.start, k - arg.start + 1)
        /\ rx.data = <<>> =>
            result = Raise("TimeoutException",
                           Desc("reading eeprom at address %d", k))
        /\ rx.data # <<>> =>
            /\ HasNack(rx.data)
            /\ result = Raise("NACKException",
                              Desc("reading eeprom at address %d", k))

(* C12: _read_eeprom(start, stop) makes one round trip per address, in     *)
(* increasing order from start; when all succeed it returns the            *)
(* stop-start+1 bytes in address order; when the read at address k fails   *)
(* it fails with that read's error, described with k, and writes no        *)
(* command for an address above k.                                         *)
C12_RangeRead ==
    [][ op' = "_read_eeprom" =>
            /\ wire' # wire =>
                /\ result = NoResult
                /\ Len(reads) = Len(wire)
                /\ wire' = Append(wire, IF rx = NoRead THEN 128 + arg.start
                                        ELSE wire[Len(wire)] + 1)
                /\ wire'[Len(wire')] <= 128 + arg.stop
            /\ (reads' # reads /\ (rx'.data = <<>> \/ HasNack(rx'.data))) =>
                Failed(result')
            /\ RangeReturned'
            /\ RangeFailed' ]_vars

C12_Witness ==
    /\ op = "_read_eeprom"
    /\ arg = [start |-> 2, stop |-> 5]
    /\ result = Returned(<<2, 3, 4, 5>>)

(* the size of the answer the protocol fixes for a command *)
ResponseSize(cmd) ==
    IF cmd \in {67, 73, 86} THEN 1
    ELSE IF cmd = 76 THEN 4
    ELSE 2

(* C13: every command is a full round trip: a step that writes appends one *)
(* byte and only when every earlier command has been read for; a step that *)
(* reads makes one read, for the last command written, asking 1 byte after *)
(* 'C', 'I', 'V', 2 after an eeprom command and 4 after 'L'.               *)
C13_RoundTrips ==
    [][ /\ wire' # wire =>
            /\ Len(reads) = Len(wire)
            /\ Len(wire') = Len(wire) + 1
            /\ SubSeq(wire', 1, Len(wire)) = wire
            /\ reads' = reads
        /\ reads' # reads =>
            /\ Len(wire) = Len(reads) + 1
            /\ reads' = Append(reads, ResponseSize(wire[Len(wire)]))
            /\ rx'.n = ResponseSize(wire[Len(wire)])
            /\ wire' = wire ]_vars

C13_Witness ==
    /\ Len(wire) = 23
    /\ Len(reads) = 23
    /\ wire[1] = 67 /\ reads[1] = 1
    /\ wire[2] = 144 /\ reads[2] = 2
    /\ wire[22] = 86 /\ reads[22] = 1
    /\ wire[23] = 76 /\ reads[23] = 4

(* C14: once construction has returned, no step changes V_ref, Z_count,    *)
(* R_feed, R_gain, K_cal or the mode, whether the measurement succeeds or  *)
(* fails, and the only byte a step writes is 'L'.                          *)
C14_ConstantsImmutable ==
    [][ (pc = "ready" \/ pc = "await_adc") =>
            /\ UNCHANGED <<V_ref, Z_count, R_feed, R_gain, K_cal, mode>>
            /\ (wire' # wire => wire' = Append(wire, 76)) ]_vars

C14_Witness ==
    /\ calls = 2
    /\ op = "get_luminance"
    /\ Failed(result)
    /\ result.exc = "TimeoutException"
    /\ wire = InitWire(73) \o <<76, 76>>
    /\ refs = <<70000, 300, 20000, 1, 1000>>
    /\ mode.chars = "current"

(* C15: a mode argument whose characters are "current" makes the           *)
(* constructor send 'I' and sets Current mode, one whose characters are    *)
(* "voltage" makes it send 'V' and sets Voltage mode, whichever string     *)
(* object carries the characters; it is never rejected as unsupported.     *)
C15_ModeByValue ==
    (/\ op = "__init__"
     /\ AllRefsLoaded
     /\ pc # "select_mode"
     /\ modeArg.chars \in {"current", "voltage"})
        => /\ Len(wire) = Len(InitWire(0))
           /\ wire[Len(wire)] = IF modeArg.chars = "current" THEN 73 ELSE 86
           /\ mode.chars = modeArg.chars
           /\ ~(Failed(result) /\ result.exc = "OptiCalException")

(* C16: on a driver in current mode, get_luminance() answered by any read  *)
(* of up to 4 bytes, with any constants, returns a number or fails with    *)
(* TimeoutException or NACKException.                                      *)
C16_LuminanceErrors ==
    (/\ op = "get_luminance"
     /\ Is(mode, "current")
     /\ rx.n = 4)
        => \/ result.kind = "ok"
           \/ /\ Failed(result)
              /\ result.exc \in {"TimeoutException", "NACKException"}
====
